---- MODULE Spec2Model ----
(***************************************************************************)
(* Model of the subscription registry and dispatch engine of the           *)
(* `subscribe` package: subscribe/subscriptions.py (SubscriptionList,      *)
(* Subscription, ClassSubscriptionList) and subscribe/subscribers.py       *)
(* (EventBase, Event, Command), and of the package-level implementation    *)
(* subscribe/__init__.py (SubscriptionList, get_superclass_subscribers).   *)
(***************************************************************************)
EXTENDS Integers, Sequences, FiniteSets, TLC

VARIABLES
    subs,        \* SubscriptionList._subscriptions: id -> list of Subscription
    pkgSubs,     \* the _subscriptions of subscribe/__init__.py: id -> list
    decorators,  \* the decorator closure returned by subscribe() the caller holds
    disp,        \* the call_subscribers loop in flight (its position in the list)
    last         \* what the caller of the last operation observed

vars == <<subs, pkgSubs, decorators, disp, last>>

----------------------------------------------------------------------------
(* Bounds of the model *)

\* total number of subscriptions held by the registry
MaxSubs == 2
\* priorities range over 0..MaxPrio
MaxPrio == 1

Priorities == 0..MaxPrio

----------------------------------------------------------------------------
(* The classes of the application and their identifiers *)

EventClasses == {"Base", "Derived"}
CommandClasses == {"Cmd"}
Classes == EventClasses \cup CommandClasses

\* the root of every class hierarchy
Object == "object"

\* the hierarchy walked from the root down to the class: reversed(cls.__mro__)
MroReversed(cls) ==
    CASE cls = "Derived" -> <<Object, "Base", "Derived">>
      [] cls = Object -> <<Object>>
      [] OTHER -> <<Object, cls>>

\* cls.__mro__ for class Base(Event) and class Derived(Base); the library
\* classes between Base and object are left out
Mro(cls) ==
    CASE cls = "Derived" -> <<"Derived", "Base", Object>>
      [] cls = Object -> <<Object>>
      [] OTHER -> <<cls, Object>>

\* cls.__module__
Module(cls) == IF cls = Object THEN "builtins" ELSE "m"

\* the prefixes applications give their class subscription lists
Prefixes == {"", "p:"}

\* ClassSubscriptionList.__init__: f"{prefix}{cls.__module__}.{cls.__qualname__}"
ClassId(cls, prefix) == prefix \o Module(cls) \o "." \o cls

Ids == {ClassId(c, p) : c \in Classes \cup {Object}, p \in Prefixes}

\* str.__lt__ on the identifiers of the model (lexicographic order)
IdRank(id) ==
    CASE id = "builtins.object" -> 1
      [] id = "m.Base" -> 2
      [] id = "m.Cmd" -> 3
      [] id = "m.Derived" -> 4
      [] id = "p:builtins.object" -> 5
      [] id = "p:m.Base" -> 6
      [] id = "p:m.Cmd" -> 7
      [] id = "p:m.Derived" -> 8
      [] OTHER -> 0

\* instances of the classes: the event or command object handed to handlers
Instances(cls) ==
    IF cls \in CommandClasses THEN {cls \o "#1", cls \o "#2"} ELSE {cls \o "#1"}

\* cls_or_obj if inspect.isclass(cls_or_obj) else cls_or_obj.__class__
ClassOf(cls_or_obj) ==
    IF cls_or_obj \in Classes \cup {Object}
    THEN cls_or_obj
    ELSE CHOOSE c \in Classes : cls_or_obj \in Instances(c)

\* ClassSubscriptionList(cls_or_obj, prefix): the accessor object
ClassSubscriptionList(cls_or_obj, prefix) ==
    [class |-> "ClassSubscriptionList", cls |-> ClassOf(cls_or_obj),
     prefix |-> prefix, id |-> ClassId(ClassOf(cls_or_obj), prefix)]

\* the comparison two lists get when SubscriptionList defines no __eq__:
\* object identity, and two accessors built by two calls are two objects
EqIdentity(self, other) == FALSE

\* SubscriptionList.__eq__
Eq(self, other) == self.class = other.class /\ self.id = other.id

----------------------------------------------------------------------------
(* Subscribers: the callables applications register *)

DepNames == {"logger", "clock"}
DepValues == {"v1", "v2"}

\* the values callers give a name: no function of the model declares clock,
\* one value for it is enough
ValuesOf(n) == IF n = "clock" THEN {"v1"} ELSE DepValues

\* a **kwargs mapping over the dependency names
KwArgs ==
    {kw \in UNION {[S -> DepValues] : S \in SUBSET DepNames} :
        \A n \in DOMAIN kw : kw[n] \in ValuesOf(n)}

NoKw == <<>>

\* the functions applications register
Handlers == {"h_ev", "h_dep"}

\* inspect.signature(f).parameters of the plain functions, in declaration order
Params(f) ==
    CASE f = "h_dep" -> <<"event", "logger">>
      [] f = "h_two" -> <<"event", "logger", "clock">>
      [] OTHER -> <<"event">>

\* what the body of a function may do once it is entered: return, raise, or
\* register one more subscriber (with some priority) on the list being
\* dispatched and return
Behaviours ==
    {[kind |-> "return", priority |-> 0], [kind |-> "raise", priority |-> 0]}
        \cup {[kind |-> "subscribe", priority |-> p] : p \in Priorities}

\* the value the function returns for the arguments it was called with
ReturnValue(f, args) == <<f, args["event"]>>

\* the exception a failing function raises
RaisedBy(f) == "error raised by " \o f

\* the function a handler registers when it registers one while it runs
ReentrantTarget == "h_new"

Range(s) == {s[i] : i \in DOMAIN s}

\* g overridden by f: {**g, **f}
Override(g, f) ==
    [n \in (DOMAIN g) \cup (DOMAIN f) |-> IF n \in DOMAIN f THEN f[n] ELSE g[n]]

\* a stored subscriber reference: the function, with the keywords of the
\* functools.partial wrapped around it (none for the plain function)
Plain(f) == [f |-> f, kw |-> NoKw]

\* a partial of a partial that keeps what was bound first: the old keywords
\* override the new ones
PartialKeepFirst(subscriber, deps) ==
    [f |-> subscriber.f, kw |-> Override(deps, subscriber.kw)]

\* functools.partial(subscriber, **deps): a partial of a partial is flattened,
\* the new keywords override the old ones
Partial(subscriber, deps) ==
    [f |-> subscriber.f, kw |-> Override(subscriber.kw, deps)]

\* subscriber(*pos, **kw): partial.__call__ merges {**self.keywords, **kw},
\* then Python binds the arguments to the parameters of the function and, when
\* they fit, runs its body. The record tells what the function was handed
\* (pos, kwargs) and how the call ended
Call(subscriber, pos, kw, body) ==
    LET params == Params(subscriber.f)
        merged == Override(subscriber.kw, kw)
        byPos == IF Len(pos) <= Len(params)
                 THEN {params[i] : i \in 1..Len(pos)} ELSE {}
        typeError ==
            \/ Len(pos) > Len(params)
            \/ byPos \cap DOMAIN merged # {}
            \/ ~(DOMAIN merged \subseteq Range(params))
            \/ ~(Range(params) \subseteq byPos \cup DOMAIN merged)
        args == [n \in Range(params) |->
                    IF n \in byPos
                    THEN pos[CHOOSE i \in 1..Len(pos) : params[i] = n]
                    ELSE merged[n]]
        call(status, err, ret) ==
            [subscriber |-> subscriber, pos |-> pos, kwargs |-> merged,
             status |-> status, err |-> err, ret |-> ret]
    IN  IF typeError
        THEN call("raised", "TypeError", <<>>)
        ELSE IF body.kind = "raise"
        THEN call("raised", RaisedBy(subscriber.f), <<>>)
        ELSE call("returned", "", ReturnValue(subscriber.f, args))

----------------------------------------------------------------------------
(* Subscription and the order list.sort() gives *)

Subscription(id, priority, subscriber) ==
    [id |-> id, priority |-> priority, subscriber |-> subscriber]

\* Subscription.__lt__ comparing the priorities with <= instead of <
LtNotStrict(self, other) ==
    IF IdRank(self.id) < IdRank(other.id)
    THEN TRUE
    ELSE self.priority <= other.priority

\* Subscription.__lt__
Lt(self, other) ==
    IF IdRank(self.id) < IdRank(other.id)
    THEN TRUE
    ELSE self.priority < other.priority

\* one step of the insertion sort list.sort() runs on short lists: x goes
\* before the first element it is less than
InsertSorted(s, x) ==
    LET before == {j \in 1..Len(s) : Lt(x, s[j])}
        p == IF before = {} THEN Len(s) + 1
             ELSE CHOOSE j \in before : \A k \in before : j <= k
    IN  SubSeq(s, 1, p - 1) \o <<x>> \o SubSeq(s, p, Len(s))

RECURSIVE SortFrom(_, _)
SortFrom(done, rest) ==
    IF rest = <<>> THEN done
    ELSE SortFrom(InsertSorted(done, Head(rest)), Tail(rest))

\* list.sort()
Sort(s) == SortFrom(<<>>, s)

\* the number of subscriptions the two registries hold, over the identifiers
\* of the model
TotalSubs ==
    LET n(id) == Len(subs[id]) + Len(pkgSubs[id])
    IN  n("builtins.object") + n("m.Base") + n("m.Cmd") + n("m.Derived")
            + n("p:builtins.object") + n("p:m.Base") + n("p:m.Cmd")
            + n("p:m.Derived")

\* the subscribers of the subscriptions a registry holds for an identifier
Subscribers(registry, id) ==
    [i \in 1..Len(registry[id]) |-> registry[id][i].subscriber]

\* SubscriptionList.get_subscribers
GetSubscribers(id) == [i \in 1..Len(subs[id]) |-> subs[id][i].subscriber]

----------------------------------------------------------------------------
(* What the caller of an operation observes *)

TooManyHandlersError == "ValueError: A command may not have more than one handler"
NoHandlerError ==
    "ValueError: A Command must have exactly one handler. It has zero handlers"

\* the operation called, its arguments, and how it ended; for a dispatch also
\* the calls it made and the subscribers the list held when it began
Outcome(op, id, inst, kw, status, err, ret, calls, start) ==
    [op |-> op, id |-> id, inst |-> inst, kw |-> kw, status |-> status,
     err |-> err, ret |-> ret, calls |-> calls, start |-> start]

Returned(op, id, kw, ret) ==
    Outcome(op, id, "", kw, "returned", "", ret, <<>>, <<>>)

Raised(op, id, inst, kw, err) ==
    Outcome(op, id, inst, kw, "raised", err, <<>>, <<>>, <<>>)

\* the same for call_subscribers(*pos, **kw), called on the list itself
CallOutcome(op, id, pos, kw, status, err, calls, start) ==
    [op |-> op, id |-> id, inst |-> "", pos |-> pos, kw |-> kw,
     status |-> status, err |-> err, ret |-> <<>>, calls |-> calls,
     start |-> start]

Idle == [active |-> FALSE, id |-> "", idx |-> 0, pos |-> <<>>, kw |-> NoKw,
         calls |-> <<>>]

Init ==
    /\ subs = [id \in Ids |-> <<>>]
    /\ pkgSubs = [id \in Ids |-> <<>>]
    /\ decorators = {}
    /\ disp = Idle
    /\ last = Returned("init", "", NoKw, <<>>)

----------------------------------------------------------------------------
(* Registration *)

\* the decorator closure applying a standing rule: the new subscriber gets
\* what was bound to a subscription of the same function the list holds
DecoratedStanding(registry, id, priority, f) ==
    LET same == {i \in 1..Len(registry[id]) : registry[id][i].subscriber.f = f}
        kw == IF same = {} THEN NoKw
              ELSE registry[id][CHOOSE i \in same : TRUE].subscriber.kw
    IN  [registry EXCEPT ![id] =
            Sort(Append(@, Subscription(id, priority, [f |-> f, kw |-> kw])))]

\* the body of the decorator closure: append, then sort
Decorated(registry, id, priority, f) ==
    [registry EXCEPT ![id] =
        Sort(Append(@, Subscription(id, priority, Plain(f))))]

\* SubscriptionList(id).subscribe(f, priority): f = "None" returns the
\* decorator, any other f is decorated at once
SubscriptionListSubscribe(id, f, priority) ==
    IF f = "None"
    THEN /\ decorators' = {[id |-> id, priority |-> priority]}
         /\ subs' = subs
    ELSE /\ TotalSubs < MaxSubs
         /\ subs' = Decorated(subs, id, priority, f)
         /\ decorators' = decorators

Subscribe(id, f, priority) ==
    /\ ~disp.active
    /\ SubscriptionListSubscribe(id, f, priority)
    /\ last' = Returned("SubscriptionList.subscribe", id, NoKw, <<f>>)
    /\ UNCHANGED <<pkgSubs, disp>>

\* EventBase.subscribe(cls, f): the priority is not passed on
EventSubscribe(cls, f) ==
    /\ ~disp.active
    /\ SubscriptionListSubscribe(ClassId(cls, ""), f, 0)
    /\ last' = Returned("EventBase.subscribe", ClassId(cls, ""), NoKw, <<f>>)
    /\ UNCHANGED <<pkgSubs, disp>>

\* EventBase.subscribe(cls, f, priority=priority): the signature is
\* subscribe(cls, f=None), Python finds no parameter for the priority and
\* raises TypeError before the body runs
EventSubscribeWithPriority(cls, f, priority) ==
    /\ ~disp.active
    /\ last' = Raised("EventBase.subscribe", ClassId(cls, ""), "",
                      [n \in {"priority"} |-> priority], "TypeError")
    /\ UNCHANGED <<subs, pkgSubs, decorators, disp>>

\* Command.subscribe without the check of the handlers already registered
CommandSubscribeUnchecked(cls, f) ==
    /\ ~disp.active
    /\ SubscriptionListSubscribe(ClassId(cls, ""), f, 0)
    /\ last' = Returned("Command.subscribe", ClassId(cls, ""), NoKw, <<f>>)
    /\ UNCHANGED <<pkgSubs, disp>>

\* Command.subscribe(cls, f)
CommandSubscribe(cls, f) ==
    /\ ~disp.active
    /\ IF Len(GetSubscribers(ClassId(cls, ""))) >= 1
       THEN /\ last' = Raised("Command.subscribe", ClassId(cls, ""), "", NoKw,
                              TooManyHandlersError)
            /\ UNCHANGED <<subs, decorators>>
       ELSE /\ SubscriptionListSubscribe(ClassId(cls, ""), f, 0)
            /\ last' = Returned("Command.subscribe", ClassId(cls, ""), NoKw,
                                <<f>>)
    /\ UNCHANGED <<pkgSubs, disp>>

\* a decorator obtained from subscribe() is applied to a function
ApplyDecorator(d, f) ==
    /\ ~disp.active
    /\ d \in decorators
    /\ TotalSubs < MaxSubs
    /\ subs' = Decorated(subs, d.id, d.priority, f)
    /\ last' = Returned("decorator", d.id, NoKw, <<f>>)
    /\ UNCHANGED <<pkgSubs, decorators, disp>>

\* ClassSubscriptionList(cls_or_obj, prefix).subscribe(f, priority)
ClassListSubscribe(cls_or_obj, prefix, f, priority) ==
    LET sl == ClassSubscriptionList(cls_or_obj, prefix)
    IN  /\ ~disp.active
        /\ SubscriptionListSubscribe(sl.id, f, priority)
        /\ last' = Outcome("ClassSubscriptionList.subscribe", sl.id,
                           cls_or_obj, NoKw, "returned", "", <<f>>, <<>>, <<>>)
        /\ UNCHANGED <<pkgSubs, disp>>

\* subscribe/__init__.py: ClassSubscriptionList(cls_or_obj, prefix)
\* .subscribe(prio)(f), the decorator applied where it is obtained
PkgClassListSubscribe(cls_or_obj, prefix, f, prio) ==
    LET sl == ClassSubscriptionList(cls_or_obj, prefix)
    IN  /\ ~disp.active
        /\ TotalSubs < MaxSubs
        /\ pkgSubs' = Decorated(pkgSubs, sl.id, prio, f)
        /\ last' = Outcome("subscribe.ClassSubscriptionList.subscribe", sl.id,
                           cls_or_obj, NoKw, "returned", "", <<f>>, <<>>, <<>>)
        /\ UNCHANGED <<subs, decorators, disp>>

----------------------------------------------------------------------------
(* Dependency binding *)

\* every entry of dependencies, declared by the subscriber or not
AllDependencies(subscriber, dependencies) == dependencies

\* the entries of dependencies the subscriber declares as parameters
SubscriberDependencies(subscriber, dependencies) ==
    [n \in {m \in DOMAIN dependencies : m \in Range(Params(subscriber.f))}
        |-> dependencies[n]]

\* one round of the loop of inject_dependencies
Bound(subscription, dependencies) ==
    LET sd == SubscriberDependencies(subscription.subscriber, dependencies)
    IN  Subscription(subscription.id, subscription.priority,
                     IF DOMAIN sd # {}
                     THEN Partial(subscription.subscriber, sd)
                     ELSE subscription.subscriber)

\* the list inject_dependencies would store if it kept a subscription only
\* when it bound something to its subscriber (the append inside the if)
InjectedBoundOnly(subscriptions, dependencies) ==
    LET IsBound(subscription) ==
            DOMAIN SubscriberDependencies(subscription.subscriber,
                                          dependencies) # {}
    IN  [i \in 1..Len(SelectSeq(subscriptions, IsBound)) |->
            Bound(SelectSeq(subscriptions, IsBound)[i], dependencies)]

\* the list inject_dependencies stores for the identifier
Injected(subscriptions, dependencies) ==
    [i \in 1..Len(subscriptions) |-> Bound(subscriptions[i], dependencies)]

\* SubscriptionList(id).inject_dependencies(**dependencies)
InjectDependencies(id, dependencies) ==
    /\ ~disp.active
    /\ subs' = [subs EXCEPT ![id] = Injected(@, dependencies)]
    /\ last' = Returned("inject_dependencies", id, dependencies, <<>>)
    /\ UNCHANGED <<pkgSubs, decorators, disp>>

\* EventBase.inject_dependencies(cls, **dependencies)
EventBaseInjectDependencies(cls, dependencies) ==
    InjectDependencies(ClassId(cls, ""), dependencies)

----------------------------------------------------------------------------
(* Dispatch *)

\* what a handler that registers while it runs leaves in the registry
Reentered(registry, id, priority) ==
    Decorated(registry, id, priority, ReentrantTarget)

\* notify dispatching on the list of the class the event class derives from
\* (the identifier taken from the first base class instead of the class)
NotifyBaseClass(cls, inst, kw) ==
    LET base == IF Len(Mro(cls)) > 2 THEN Mro(cls)[2] ELSE cls
    IN  /\ ~disp.active
        /\ disp' = [active |-> TRUE, id |-> ClassId(base, ""), idx |-> 0,
                    pos |-> <<>>,
                    kw |-> Override([n \in {"event"} |-> inst], kw),
                    calls |-> <<>>]
        /\ last' = Outcome("notify", ClassId(base, ""), inst, kw, "running",
                           "", <<>>, <<>>, GetSubscribers(ClassId(base, "")))
        /\ UNCHANGED <<subs, pkgSubs, decorators>>

\* Event.notify(self, **kwargs): call_subscribers(event=self, **kwargs) starts
\* iterating the list of the identifier
Notify(cls, inst, kw) ==
    /\ ~disp.active
    /\ disp' = [active |-> TRUE, id |-> ClassId(cls, ""), idx |-> 0,
                pos |-> <<>>, kw |-> Override([n \in {"event"} |-> inst], kw),
                calls |-> <<>>]
    /\ last' = Outcome("notify", ClassId(cls, ""), inst, kw, "running", "",
                       <<>>, <<>>, GetSubscribers(ClassId(cls, "")))
    /\ UNCHANGED <<subs, pkgSubs, decorators>>

\* SubscriptionList(id).call_subscribers(*pos, **kw) starts iterating the list
\* of the identifier
CallSubscribers(id, pos, kw) ==
    /\ ~disp.active
    /\ disp' = [active |-> TRUE, id |-> id, idx |-> 0, pos |-> pos, kw |-> kw,
                calls |-> <<>>]
    /\ last' = CallOutcome("call_subscribers", id, pos, kw, "running", "",
                           <<>>, GetSubscribers(id))
    /\ UNCHANGED <<subs, pkgSubs, decorators>>

\* the subscriber the loop of call_subscribers is about to call: the list
\* iterator reads the list of the registry at its index
NextSubscriber == GetSubscribers(disp.id)[disp.idx + 1]

\* one round of the loop of call_subscribers: the next subscriber is called
InvokeNext(body) ==
    /\ disp.active
    /\ disp.idx < Len(GetSubscribers(disp.id))
    /\ LET r == Call(NextSubscriber, disp.pos, disp.kw, body)
       IN  IF r.status = "raised"
           THEN /\ disp' = Idle
                /\ last' = [last EXCEPT !.status = "raised", !.err = r.err,
                                        !.calls = Append(disp.calls, r)]
                /\ subs' = subs
           ELSE /\ disp' = [disp EXCEPT !.idx = @ + 1,
                                        !.calls = Append(@, r)]
                /\ last' = last
                /\ IF body.kind = "subscribe"
                   THEN /\ TotalSubs < MaxSubs
                        /\ subs' = Reentered(subs, disp.id, body.priority)
                   ELSE subs' = subs
    /\ UNCHANGED <<pkgSubs, decorators>>

\* call_subscribers consuming the subscriptions it has dispatched to: the list
\* of the identifier is left empty when the loop ends
DispatchReturnDraining ==
    /\ disp.active
    /\ disp.idx >= Len(GetSubscribers(disp.id))
    /\ disp' = Idle
    /\ last' = [last EXCEPT !.status = "returned", !.calls = disp.calls]
    /\ subs' = [subs EXCEPT ![disp.id] = <<>>]
    /\ UNCHANGED <<pkgSubs, decorators>>

\* the iterator is exhausted: call_subscribers returns
DispatchReturn ==
    /\ disp.active
    /\ disp.idx >= Len(GetSubscribers(disp.id))
    /\ disp' = Idle
    /\ last' = [last EXCEPT !.status = "returned", !.calls = disp.calls]
    /\ UNCHANGED <<subs, pkgSubs, decorators>>

\* the bodies of functions that register nothing while they run
PlainBehaviours == {b \in Behaviours : b.kind # "subscribe"}

\* the orders in which a caller can write the named arguments of a call:
\* the order of the keys of **kwargs
Orders(names) ==
    {s \in [1..Cardinality(names) -> names] : Range(s) = names}

\* the calls a loop over subscribers makes from the i-th on, each with the
\* same arguments, until one raises
RECURSIVE CallsFrom(_, _, _, _, _)
CallsFrom(subscribers, i, pos, kw, bodies) ==
    IF i > Len(subscribers) THEN <<>>
    ELSE LET r == Call(subscribers[i], pos, kw, bodies[i])
         IN  IF r.status = "raised" THEN <<r>>
             ELSE <<r>> \o CallsFrom(subscribers, i + 1, pos, kw, bodies)

\* subscribe/__init__.py: subscription.subscriber(*args, *kwargs): the second
\* star unpacks the dict as an iterable, which yields its keys, so the names
\* follow the positional arguments and no named argument is passed
PkgArguments(pos, names, kw) == [pos |-> pos \o names, kw |-> NoKw]

\* subscribe/__init__.py: SubscriptionList(id).call_subscribers(*pos, **kw),
\* names the order kw was written in, bodies what each function called does
PkgCallSubscribers(id, pos, names, kw, bodies) ==
    LET subscribers == Subscribers(pkgSubs, id)
        passed == PkgArguments(pos, names, kw)
        calls == CallsFrom(subscribers, 1, passed.pos, passed.kw, bodies)
        failed == calls # <<>> /\ calls[Len(calls)].status = "raised"
    IN  /\ ~disp.active
        /\ last' = CallOutcome("subscribe.call_subscribers", id, pos, kw,
                               IF failed THEN "raised" ELSE "returned",
                               IF failed THEN calls[Len(calls)].err ELSE "",
                               calls, subscribers)
        /\ UNCHANGED <<subs, pkgSubs, decorators, disp>>

\* Command.execute calling the first handler of however many there are, and
\* raising only when there is none (len(subscribers) < 1)
ExecuteFirstOfMany(cls, inst, kw, body) ==
    LET id == ClassId(cls, "")
        subscribers == GetSubscribers(id)
    IN  /\ ~disp.active
        /\ IF Len(subscribers) < 1
           THEN /\ last' = Raised("execute", id, inst, kw, NoHandlerError)
                /\ subs' = subs
           ELSE LET r == Call(subscribers[1], <<inst>>, kw, body)
                IN  /\ last' = Outcome("execute", id, inst, kw, r.status,
                                       r.err, r.ret, <<r>>, subscribers)
                    /\ IF r.status = "returned" /\ body.kind = "subscribe"
                       THEN /\ TotalSubs < MaxSubs
                            /\ subs' = Reentered(subs, id, body.priority)
                       ELSE subs' = subs
        /\ UNCHANGED <<pkgSubs, decorators, disp>>

\* Command.execute raising only when there are too many handlers
\* (len(subscribers) > 1): with none, subscribers[0] is an IndexError
ExecuteUncheckedEmpty(cls, inst, kw, body) ==
    LET id == ClassId(cls, "")
        subscribers == GetSubscribers(id)
    IN  /\ ~disp.active
        /\ IF Len(subscribers) > 1
           THEN /\ last' = Raised("execute", id, inst, kw, NoHandlerError)
                /\ subs' = subs
           ELSE IF Len(subscribers) = 0
           THEN /\ last' = Raised("execute", id, inst, kw, "IndexError")
                /\ subs' = subs
           ELSE LET r == Call(subscribers[1], <<inst>>, kw, body)
                IN  /\ last' = Outcome("execute", id, inst, kw, r.status,
                                       r.err, r.ret, <<r>>, subscribers)
                    /\ IF r.status = "returned" /\ body.kind = "subscribe"
                       THEN /\ TotalSubs < MaxSubs
                            /\ subs' = Reentered(subs, id, body.priority)
                       ELSE subs' = subs
        /\ UNCHANGED <<pkgSubs, decorators, disp>>

\* Command.execute calling the handler without returning what it returns
\* (the return statement left out: execute returns None)
ExecuteDiscardsResult(cls, inst, kw, body) ==
    LET id == ClassId(cls, "")
        subscribers == GetSubscribers(id)
    IN  /\ ~disp.active
        /\ IF Len(subscribers) # 1
           THEN /\ last' = Raised("execute", id, inst, kw, NoHandlerError)
                /\ subs' = subs
           ELSE LET r == Call(subscribers[1], <<inst>>, kw, body)
                IN  /\ last' = Outcome("execute", id, inst, kw, r.status,
                                       r.err, <<>>, <<r>>, subscribers)
                    /\ IF r.status = "returned" /\ body.kind = "subscribe"
                       THEN /\ TotalSubs < MaxSubs
                            /\ subs' = Reentered(subs, id, body.priority)
                       ELSE subs' = subs
        /\ UNCHANGED <<pkgSubs, decorators, disp>>

\* Command.execute(self, **kwargs)
Execute(cls, inst, kw, body) ==
    LET id == ClassId(cls, "")
        subscribers == GetSubscribers(id)
    IN  /\ ~disp.active
        /\ IF Len(subscribers) # 1
           THEN /\ last' = Raised("execute", id, inst, kw, NoHandlerError)
                /\ subs' = subs
           ELSE LET r == Call(subscribers[1], <<inst>>, kw, body)
                IN  /\ last' = Outcome("execute", id, inst, kw, r.status,
                                       r.err, r.ret, <<r>>, subscribers)
                    /\ IF r.status = "returned" /\ body.kind = "subscribe"
                       THEN /\ TotalSubs < MaxSubs
                            /\ subs' = Reentered(subs, id, body.priority)
                       ELSE subs' = subs
        /\ UNCHANGED <<pkgSubs, decorators, disp>>

----------------------------------------------------------------------------
(* Events: registration, dependency binding and notify on the event classes *)

EventIds == {ClassId(c, "") : c \in EventClasses}

\* the named arguments callers pass to notify and execute
CallKw == {NoKw, [n \in {"logger"} |-> "v2"]}

Next ==
    \/ \E id \in EventIds, f \in Handlers, p \in Priorities :
          Subscribe(id, f, p)
    \/ \E cls \in EventClasses, f \in Handlers \cup {"None"} :
          EventSubscribe(cls, f)
    \/ \E d \in decorators, f \in Handlers : ApplyDecorator(d, f)
    \/ \E cls \in EventClasses, deps \in KwArgs :
          EventBaseInjectDependencies(cls, deps)
    \/ \E cls \in EventClasses : \E inst \in Instances(cls), kw \in CallKw :
          Notify(cls, inst, kw)
    \/ \E body \in Behaviours : InvokeNext(body)
    \/ DispatchReturn

Spec == Init /\ [][Next]_vars

----------------------------------------------------------------------------
(* Events whose handlers are registered through Event.subscribe only, with  *)
(* and without a priority, and register nothing themselves                  *)

NextEventSubscribe ==
    \/ \E cls \in EventClasses, f \in Handlers \cup {"None"} :
          EventSubscribe(cls, f)
    \/ \E cls \in EventClasses, f \in Handlers \cup {"None"},
          p \in Priorities : EventSubscribeWithPriority(cls, f, p)
    \/ \E d \in decorators, f \in Handlers : ApplyDecorator(d, f)
    \/ \E cls \in EventClasses : \E inst \in Instances(cls), kw \in CallKw :
          Notify(cls, inst, kw)
    \/ \E body \in {b \in Behaviours : b.kind # "subscribe"} :
          InvokeNext(body)
    \/ DispatchReturn

SpecEventSubscribe == Init /\ [][NextEventSubscribe]_vars

----------------------------------------------------------------------------
(* Commands: registration through Command.subscribe and through the           *)
(* subscription list of the command class, dependency binding and execute   *)

CommandIds == {ClassId(c, "") : c \in CommandClasses}

NextCommand ==
    \/ \E cls \in CommandClasses, f \in Handlers \cup {"None"} :
          CommandSubscribe(cls, f)
    \/ \E id \in CommandIds, f \in Handlers, p \in Priorities :
          Subscribe(id, f, p)
    \/ \E d \in decorators, f \in Handlers : ApplyDecorator(d, f)
    \/ \E cls \in CommandClasses, deps \in KwArgs :
          EventBaseInjectDependencies(cls, deps)
    \/ \E cls \in CommandClasses :
          \E inst \in Instances(cls), kw \in CallKw, body \in Behaviours :
             Execute(cls, inst, kw, body)

SpecCommand == Init /\ [][NextCommand]_vars

(* Commands whose handlers are registered through Command.subscribe only,   *)
(* in either calling form, and do not register anything themselves          *)

NextCommandSubscribe ==
    \/ \E cls \in CommandClasses, f \in Handlers \cup {"None"} :
          CommandSubscribe(cls, f)
    \/ \E d \in decorators, f \in Handlers : ApplyDecorator(d, f)
    \/ \E cls \in CommandClasses, deps \in KwArgs :
          EventBaseInjectDependencies(cls, deps)
    \/ \E cls \in CommandClasses :
          \E inst \in Instances(cls), kw \in CallKw,
             body \in {b \in Behaviours : b.kind # "subscribe"} :
                Execute(cls, inst, kw, body)

SpecCommandSubscribe == Init /\ [][NextCommandSubscribe]_vars

----------------------------------------------------------------------------
(* Class subscription lists and the traversal of the superclasses *)

\* for super_cls in mro: yield from ClassSubscriptionList(super_cls,
\* prefix).subscribers
RECURSIVE SuperclassSubscribers(_, _, _)
SuperclassSubscribers(registry, mro, prefix) ==
    IF mro = <<>> THEN <<>>
    ELSE Subscribers(registry, ClassSubscriptionList(Head(mro), prefix).id)
            \o SuperclassSubscribers(registry, Tail(mro), prefix)

\* list(ClassSubscriptionList(cls_or_obj, prefix).get_subscribers())
ClassListGetSubscribers(cls_or_obj, prefix) ==
    LET sl == ClassSubscriptionList(cls_or_obj, prefix)
    IN  /\ ~disp.active
        /\ last' = Outcome("ClassSubscriptionList.get_subscribers", sl.id,
                           cls_or_obj, NoKw, "returned", "",
                           GetSubscribers(sl.id), <<>>, <<>>)
        /\ UNCHANGED <<subs, pkgSubs, decorators, disp>>

\* list(SuperClassSubscriptionList(cls_or_obj, prefix).get_subscribers())
SuperClassGetSubscribers(cls_or_obj, prefix) ==
    LET sl == ClassSubscriptionList(cls_or_obj, prefix)
    IN  /\ ~disp.active
        /\ last' = Outcome("SuperClassSubscriptionList.get_subscribers", sl.id,
                           cls_or_obj, NoKw, "returned", "",
                           SuperclassSubscribers(subs, Mro(sl.cls), prefix),
                           <<>>, <<>>)
        /\ UNCHANGED <<subs, pkgSubs, decorators, disp>>

\* subscribe/__init__.py: list(get_superclass_subscribers(cls_or_obj, prefix))
PkgGetSuperclassSubscribers(cls_or_obj, prefix) ==
    /\ ~disp.active
    /\ last' = Outcome("subscribe.get_superclass_subscribers",
                       ClassId(ClassOf(cls_or_obj), prefix), cls_or_obj, NoKw,
                       "returned", "",
                       SuperclassSubscribers(pkgSubs,
                                             Mro(ClassOf(cls_or_obj)), prefix),
                       <<>>, <<>>)
    /\ UNCHANGED <<subs, pkgSubs, decorators, disp>>

\* the classes of the hierarchy and their instances
HierarchyObjects ==
    EventClasses \cup UNION {Instances(c) : c \in EventClasses}

NextHierarchy ==
    \/ \E x \in EventClasses, p \in Prefixes, f \in Handlers,
          priority \in Priorities : ClassListSubscribe(x, p, f, priority)
    \/ \E x \in EventClasses, f \in Handlers, prio \in Priorities :
          PkgClassListSubscribe(x, "", f, prio)
    \/ \E x \in HierarchyObjects, p \in Prefixes :
          SuperClassGetSubscribers(x, p)
    \/ \E x \in HierarchyObjects : PkgGetSuperclassSubscribers(x, "")

SpecHierarchy == Init /\ [][NextHierarchy]_vars

(* Class subscription lists built from a class and from an instance of it   *)

NextClassList ==
    \/ \E x \in HierarchyObjects, p \in Prefixes, f \in Handlers,
          priority \in Priorities : ClassListSubscribe(x, p, f, priority)
    \/ \E x \in HierarchyObjects, p \in Prefixes :
          ClassListGetSubscribers(x, p)

SpecClassList == Init /\ [][NextClassList]_vars

----------------------------------------------------------------------------
(* Dispatch by notify, execute and call_subscribers, of both                *)
(* implementations, to functions that register nothing while they run       *)

DispatchClasses == {"Base", "Cmd"}

\* the arguments callers pass to call_subscribers: the event by position or
\* by name, with or without a named argument more
CallArguments(inst) ==
    {[pos |-> <<inst>>, kw |-> kw] : kw \in CallKw}
        \cup {[pos |-> <<>>, kw |-> Override([n \in {"event"} |-> inst], kw)] :
                  kw \in CallKw}

NextDispatch ==
    \/ \E cls \in DispatchClasses, f \in Handlers, p \in Priorities :
          Subscribe(ClassId(cls, ""), f, p)
    \/ \E f \in Handlers, prio \in Priorities :
          PkgClassListSubscribe("Base", "", f, prio)
    \/ \E deps \in KwArgs : EventBaseInjectDependencies("Base", deps)
    \/ \E inst \in Instances("Base"), kw \in CallKw : Notify("Base", inst, kw)
    \/ \E cls \in DispatchClasses : \E a \in CallArguments(cls \o "#1") :
          CallSubscribers(ClassId(cls, ""), a.pos, a.kw)
    \/ \E body \in PlainBehaviours : InvokeNext(body)
    \/ DispatchReturn
    \/ \E inst \in Instances("Cmd"), kw \in CallKw, body \in PlainBehaviours :
          Execute("Cmd", inst, kw, body)
    \/ \E a \in CallArguments("Base#1") :
          \E names \in Orders(DOMAIN a.kw),
             bodies \in [1..Len(pkgSubs[ClassId("Base", "")])
                             -> PlainBehaviours] :
                PkgCallSubscribers(ClassId("Base", ""), a.pos, names, a.kw,
                                   bodies)

SpecDispatch == Init /\ [][NextDispatch]_vars

----------------------------------------------------------------------------
(* Dependency binding repeated: an event class whose handlers declare two   *)
(* dependencies, inject_dependencies called any number of times             *)

\* the function declaring both dependencies, and the one declaring none
RebindHandlers == {"h_two", "h_ev"}

NextRebind ==
    \/ \E f \in RebindHandlers, p \in Priorities :
          Subscribe(ClassId("Base", ""), f, p)
    \/ \E deps \in KwArgs : EventBaseInjectDependencies("Base", deps)
    \/ \E inst \in Instances("Base"), kw \in CallKw : Notify("Base", inst, kw)
    \/ \E body \in PlainBehaviours : InvokeNext(body)
    \/ DispatchReturn

SpecRebind == Init /\ [][NextRebind]_vars

----------------------------------------------------------------------------
(* Properties *)

\* the subscribers a dispatch called, in the order of the calls
CalledSubscribers(calls) == [i \in 1..Len(calls) |-> calls[i].subscriber]

SortedByPriority(s) ==
    \A i, j \in 1..Len(s) : i < j => s[i].priority <= s[j].priority

\* new is old with one subscription more, placed after every subscription of
\* the same or a lower priority and before every one of a higher priority
StableInsert(old, new) ==
    \E k \in 1..Len(new) :
        /\ old = SubSeq(new, 1, k - 1) \o SubSeq(new, k + 1, Len(new))
        /\ \A i \in 1..(k - 1) : new[i].priority <= new[k].priority
        /\ \A i \in (k + 1)..Len(new) : new[i].priority > new[k].priority

\* new holds the subscriptions of old, in the same order, whatever became of
\* their subscriber references
SameOrder(old, new) ==
    /\ Len(new) = Len(old)
    /\ \A i \in 1..Len(old) :
          /\ new[i].priority = old[i].priority
          /\ new[i].subscriber.f = old[i].subscriber.f

\* C1: in every state the subscriptions of every identifier are sorted by
\* priority ascending, and every subscribe, decorator and inject_dependencies
\* step keeps the subscriptions with equal priority in registration order: a
\* new subscription goes behind the ones of its priority, the others keep
\* their relative order
C1_SortedStable ==
    /\ [](\A id \in Ids : SortedByPriority(subs[id]))
    /\ [][\A id \in Ids :
            IF Len(subs'[id]) = Len(subs[id])
            THEN SameOrder(subs[id], subs'[id])
            ELSE StableInsert(subs[id], subs'[id])]_vars

\* C1 witness: a function was just registered with the priority of another
\* function registered before it, and is stored behind it
C1_Witness ==
    /\ last.op = "SubscriptionList.subscribe"
    /\ Len(subs[last.id]) = 2
    /\ subs[last.id][1].priority = subs[last.id][2].priority
    /\ subs[last.id][2].subscriber.f = last.ret[1]
    /\ subs[last.id][1].subscriber.f # last.ret[1]

\* the orders a dispatch that just ended can be held against: the subscribers
\* of the identifier when the dispatch began, and the ones it has now
DispatchOrders == {last.start, GetSubscribers(last.id)}

\* C2: when notify returns it has called every subscriber of the event class
\* once per registration, in the order of get_subscribers (as it was when
\* notify was called or as it is when notify returns), and every call was
\* handed the event instance
C2_NotifyCallsEachOnce ==
    (last.op = "notify" /\ last.status = "returned") =>
        /\ CalledSubscribers(last.calls) \in DispatchOrders
        /\ \A i \in 1..Len(last.calls) :
              last.calls[i].kwargs["event"] = last.inst

\* the calls the dispatch in flight, or the dispatch that just ended, has made
DispatchCalls == IF disp.active THEN disp.calls ELSE last.calls

\* C6: a dispatch calls the subscribers the list held when the dispatch began
\* and no other: what it has called so far is a prefix of that sequence, and
\* all of it once the dispatch returns
C6_DispatchUsesSnapshot ==
    last.op = "notify" =>
        /\ Len(DispatchCalls) <= Len(last.start)
        /\ CalledSubscribers(DispatchCalls)
              = SubSeq(last.start, 1, Len(DispatchCalls))
        /\ last.status = "returned" => Len(DispatchCalls) = Len(last.start)

\* C7: when notify fails, the failure the caller sees is the one the last
\* subscriber called raised, and the subscribers called are the first i of the
\* dispatch order (as it was when notify was called or as it is when notify
\* fails), each once: the ones before the failing one returned, none behind it
\* was called
C7_FailFast ==
    (last.op = "notify" /\ last.status = "raised") =>
        LET i == Len(last.calls)
        IN  /\ i >= 1
            /\ last.calls[i].status = "raised"
            /\ last.err = last.calls[i].err
            /\ \A j \in 1..(i - 1) : last.calls[j].status = "returned"
            /\ \E order \in DispatchOrders :
                  /\ i <= Len(order)
                  /\ CalledSubscribers(last.calls) = SubSeq(order, 1, i)

\* C3: the registry never holds more than one handler for a command class
\* whose handlers are all registered through Command.subscribe
C3_AtMostOneHandler == \A id \in CommandIds : Len(subs[id]) <= 1

\* C4: Command.subscribe on a command class that has a handler fails with the
\* too-many-handlers error and leaves the registry as it was, and execute on
\* a command class with one handler calls that handler
C4_SecondHandlerRejected ==
    [][/\ (last'.op = "Command.subscribe" /\ Len(subs[last'.id]) >= 1) =>
             /\ last'.status = "raised"
             /\ last'.err = TooManyHandlersError
             /\ subs' = subs
       /\ (last'.op = "execute" /\ Len(subs[last'.id]) = 1) =>
             /\ Len(last'.calls) = 1
             /\ last'.calls[1].subscriber = subs[last'.id][1].subscriber
             /\ last'.calls[1].pos = <<last'.inst>>]_vars

\* C4 witness: a Command.subscribe was rejected and the handler registered
\* before is the only one
C4_Witness ==
    /\ last.op = "Command.subscribe"
    /\ last.status = "raised"
    /\ last.err = TooManyHandlersError
    /\ Len(subs[last.id]) = 1

\* C5: execute on a command class with no handler fails with the no-handler
\* error and calls nothing
C5_ExecuteWithoutHandler ==
    [][(last'.op = "execute" /\ Len(subs[last'.id]) = 0) =>
          /\ last'.status = "raised"
          /\ last'.err = NoHandlerError
          /\ last'.calls = <<>>
          /\ subs' = subs]_vars

\* C5 witness: an execute failed on a command class without handlers
C5_Witness ==
    /\ last.op = "execute"
    /\ last.status = "raised"
    /\ last.err = NoHandlerError
    /\ Len(subs[last.id]) = 0

\* C8: execute on a command class that holds two or more handlers fails with
\* an error and calls none of them
C8_ExecuteWithManyHandlers ==
    [][(last'.op = "execute" /\ Len(subs[last'.id]) >= 2) =>
          /\ last'.status = "raised"
          /\ last'.err # ""
          /\ last'.calls = <<>>]_vars

\* C8 witness: an execute failed on a command class that holds two handlers
C8_Witness ==
    /\ last.op = "execute"
    /\ last.status = "raised"
    /\ last.calls = <<>>
    /\ Len(subs[last.id]) = 2

\* the names of dependencies a subscriber declares as parameters
Declared(subscriber, dependencies) ==
    DOMAIN dependencies \cap Range(Params(subscriber.f))

\* C9: inject_dependencies(D) binds to every subscriber of the identifier the
\* entries of D it declares and no other, and stores a subscriber that
\* declares none of them unchanged; a dispatch hands every subscriber the
\* values bound to it for the names the caller does not supply, and hands a
\* subscriber nothing is bound to the caller's arguments only
C9_InjectBindsDeclared ==
    /\ [][last'.op = "inject_dependencies" =>
            /\ Len(subs'[last'.id]) = Len(subs[last'.id])
            /\ \A i \in 1..Len(subs[last'.id]) :
                  LET old == subs[last'.id][i].subscriber
                      new == subs'[last'.id][i].subscriber
                      names == Declared(old, last'.kw)
                  IN  /\ new.f = old.f
                      /\ DOMAIN new.kw = DOMAIN old.kw \cup names
                      /\ \A n \in names : new.kw[n] = last'.kw[n]
                      /\ \A n \in DOMAIN old.kw \ names : new.kw[n] = old.kw[n]
                      /\ names = {} => new = old]_vars
    /\ [](last.op = "notify" =>
            \A i \in 1..Len(DispatchCalls) :
                LET c == DispatchCalls[i]
                IN  /\ \A n \in DOMAIN c.subscriber.kw \ DOMAIN last.kw :
                          c.kwargs[n] = c.subscriber.kw[n]
                    /\ c.subscriber.kw = NoKw =>
                          DOMAIN c.kwargs = DOMAIN last.kw \cup {"event"})

\* C9 witness: a notify that supplied no named argument has called a function
\* declaring none of the dependencies, stored unbound, and a function that was
\* handed the value bound to it, and both returned
C9_Witness ==
    /\ last.op = "notify"
    /\ last.status = "returned"
    /\ last.kw = NoKw
    /\ \E i, j \in 1..Len(last.calls) :
          /\ last.calls[i].subscriber = Plain("h_ev")
          /\ last.calls[j].subscriber.f = "h_dep"
          /\ last.calls[j].kwargs["logger"] = "v1"

\* C10: inject_dependencies on an identifier leaves the number of its
\* subscriptions, their priorities, their identifier and their order as they
\* were, and leaves the subscriptions of every other identifier untouched
C10_InjectFrame ==
    [][last'.op = "inject_dependencies" =>
          /\ Len(subs'[last'.id]) = Len(subs[last'.id])
          /\ \A i \in 1..Len(subs[last'.id]) :
                /\ subs'[last'.id][i].priority = subs[last'.id][i].priority
                /\ subs'[last'.id][i].id = subs[last'.id][i].id
                /\ subs'[last'.id][i].subscriber.f
                      = subs[last'.id][i].subscriber.f
          /\ \A id \in Ids \ {last'.id} : subs'[id] = subs[id]]_vars

\* C10 witness: inject_dependencies has bound a value to a subscriber of one
\* identifier while another identifier holds a subscriber declaring the same
\* name, still unbound
C10_Witness ==
    /\ last.op = "inject_dependencies"
    /\ \E i \in 1..Len(subs[last.id]) :
          /\ subs[last.id][i].subscriber.f = "h_dep"
          /\ subs[last.id][i].subscriber.kw = last.kw
          /\ last.kw # NoKw
    /\ \E id \in Ids \ {last.id} :
          /\ Len(subs[id]) = 1
          /\ subs[id][1].subscriber = Plain("h_dep")

\* C11: the superclass traversal for Derived, in both implementations, yields
\* the subscribers of Derived's own list in their stored order, which is by
\* priority ascending, then the subscribers of Base's list in their stored
\* order, by priority ascending, and after them only what the lists of the
\* classes above Base hold, whatever the priorities on Base are relative to
\* the ones on Derived and in whatever order the registrations were made
C11_SubclassFirst ==
    \A p \in Prefixes :
        LET Holds(registry) ==
                LET d == registry[ClassId("Derived", p)]
                    b == registry[ClassId("Base", p)]
                    o == registry[ClassId(Object, p)]
                IN  /\ SortedByPriority(d)
                    /\ SortedByPriority(b)
                    /\ Len(last.ret) = Len(d) + Len(b) + Len(o)
                    /\ \A i \in 1..Len(d) : last.ret[i] = d[i].subscriber
                    /\ \A i \in 1..Len(b) :
                          last.ret[Len(d) + i] = b[i].subscriber
        IN  last.id = ClassId("Derived", p) =>
                /\ last.op = "SuperClassSubscriptionList.get_subscribers"
                      => Holds(subs)
                /\ last.op = "subscribe.get_superclass_subscribers"
                      => Holds(pkgSubs)

\* C11 witness: the traversal for Derived has yielded a handler of Derived
\* registered with the higher priority in front of a handler of Base that
\* was registered with the lower priority
C11_Witness ==
    /\ last.op = "SuperClassSubscriptionList.get_subscribers"
    /\ last.id = ClassId("Derived", "")
    /\ Len(subs[ClassId("Derived", "")]) = 1
    /\ Len(subs[ClassId("Base", "")]) = 1
    /\ subs[ClassId("Derived", "")][1].priority
          > subs[ClassId("Base", "")][1].priority
    /\ last.ret = <<Plain("h_dep"), Plain("h_ev")>>
    /\ subs[ClassId("Derived", "")][1].subscriber = Plain("h_dep")

\* C12: Event.subscribe called with a priority registers the handler with
\* that priority (so that notify, which calls in stored order, calls the
\* handlers in ascending order of the priorities given): the call returns
\* and the list of the event class holds a subscription with the priority
\* given
C12_SubscribeWithPriority ==
    (last.op = "EventBase.subscribe" /\ "priority" \in DOMAIN last.kw) =>
        /\ last.status = "returned"
        /\ \E i \in 1..Len(subs[last.id]) :
              subs[last.id][i].priority = last.kw["priority"]

\* C13: call_subscribers of either implementation hands every subscriber it
\* calls the positional arguments it was given and the named arguments it
\* was given, each name with its value (on top of what is bound to the
\* subscriber), the same for every subscriber
C13_SameArguments ==
    last.op \in {"call_subscribers", "subscribe.call_subscribers"} =>
        \A i \in 1..Len(DispatchCalls) :
            /\ DispatchCalls[i].pos = last.pos
            /\ DispatchCalls[i].kwargs
                  = Override(DispatchCalls[i].subscriber.kw, last.kw)

DispatchOps ==
    {"notify", "execute", "call_subscribers", "subscribe.call_subscribers"}

\* C14: when the functions called register nothing and bind nothing, no step
\* of notify, execute or call_subscribers (the call, each subscriber called,
\* the return or the failure) changes the subscriptions of any identifier in
\* either registry, so that the next dispatch finds the same sequence
C14_DispatchFrame ==
    [][last'.op \in DispatchOps => (subs' = subs /\ pkgSubs' = pkgSubs)]_vars

\* C14 witness: a notify has failed at the second of two subscribers, a
\* notify before it has returned (it failed on a later call), and the list
\* holds the two subscribers as before
C14_Witness ==
    /\ last.op = "notify"
    /\ last.status = "raised"
    /\ Len(last.calls) = 2
    /\ last.calls[1].status = "returned"
    /\ Len(subs[last.id]) = 2
    /\ GetSubscribers(last.id) = last.start

\* C15: execute on a command class that holds exactly one handler calls that
\* handler once, with the command instance as its positional argument and
\* the caller's named arguments (on top of what is bound to the handler), and
\* ends as that call ends: it returns the value the handler returned for
\* the instance, unchanged, or fails as the call failed
C15_ExecuteReturnsHandlerValue ==
    [][(last'.op = "execute" /\ Len(subs[last'.id]) = 1) =>
          LET h == subs[last'.id][1].subscriber
              c == last'.calls[1]
          IN  /\ Len(last'.calls) = 1
              /\ c.subscriber = h
              /\ c.pos = <<last'.inst>>
              /\ c.kwargs = Override(h.kw, last'.kw)
              /\ last'.status = c.status
              /\ last'.err = c.err
              /\ last'.status = "returned" =>
                    last'.ret = <<h.f, last'.inst>>]_vars

\* C15 witness: an execute on the second instance of a command class with
\* one handler, given a named argument, has returned what the handler
\* returned for that instance
C15_Witness ==
    /\ last.op = "execute"
    /\ last.status = "returned"
    /\ last.inst = "Cmd#2"
    /\ last.kw # NoKw
    /\ Len(last.calls) = 1
    /\ last.ret = <<"h_dep", "Cmd#2">>
    /\ last.ret = last.calls[1].ret

AddedAt(old, new, k) ==
    old = SubSeq(new, 1, k - 1) \o SubSeq(new, k + 1, Len(new))

\* C17: a subscriber registered to an identifier is stored unbound, whatever
\* inject_dependencies has bound to the subscribers registered before it
\* (also to a subscription of the same function), and a dispatch hands a
\* subscriber stored unbound the event and the named arguments of the caller
\* and nothing else
C17_InjectIsNotStanding ==
    /\ [][\A id \in Ids :
            Len(subs'[id]) = Len(subs[id]) + 1 =>
                \E k \in 1..Len(subs'[id]) :
                    /\ AddedAt(subs[id], subs'[id], k)
                    /\ subs'[id][k].subscriber.kw = NoKw]_vars
    /\ [](last.op = "notify" =>
            \A i \in 1..Len(DispatchCalls) :
                DispatchCalls[i].subscriber.kw = NoKw =>
                    DispatchCalls[i].kwargs
                        = Override([n \in {"event"} |-> last.inst], last.kw))

\* C17 witness: a notify without named arguments has called the function
\* inject_dependencies bound a value to, which got the value, and then the
\* same function registered after that, stored unbound, which got no value
\* and failed for the missing argument
C17_Witness ==
    /\ last.op = "notify"
    /\ last.kw = NoKw
    /\ last.status = "raised"
    /\ last.err = "TypeError"
    /\ Len(last.calls) = 2
    /\ last.calls[1].subscriber = Partial(Plain("h_dep"),
                                          [n \in {"logger"} |-> "v1"])
    /\ last.calls[1].status = "returned"
    /\ last.calls[2].subscriber = Plain("h_dep")
    /\ "logger" \notin DOMAIN last.calls[2].kwargs

\* C18: a dispatch hands every subscriber, for every name inject_dependencies
\* has bound to it, the value bound, whatever the caller of the dispatch
\* passes for that name
C18_BoundValueFixed ==
    last.op = "notify" =>
        \A i \in 1..Len(DispatchCalls) :
            \A n \in DOMAIN DispatchCalls[i].subscriber.kw :
                DispatchCalls[i].kwargs[n] = DispatchCalls[i].subscriber.kw[n]

\* C19: inject_dependencies called on subscribers that are bound already
\* rebinds them: every name bound before and given again is bound to the
\* value given now, every name bound before and not given again keeps its
\* value; and a dispatch that passes no value for a bound name hands the
\* subscriber the value bound last
C19_Rebind ==
    /\ [][last'.op = "inject_dependencies" =>
            \A i \in 1..Len(subs[last'.id]) :
                LET old == subs[last'.id][i].subscriber
                    new == subs'[last'.id][i].subscriber
                IN  /\ DOMAIN old.kw \subseteq DOMAIN new.kw
                    /\ \A n \in DOMAIN old.kw :
                          new.kw[n] = IF n \in DOMAIN last'.kw
                                      THEN last'.kw[n] ELSE old.kw[n]]_vars
    /\ [](last.op = "notify" =>
            \A i \in 1..Len(DispatchCalls) :
                \A n \in DOMAIN DispatchCalls[i].subscriber.kw \ DOMAIN last.kw :
                    DispatchCalls[i].kwargs[n]
                        = DispatchCalls[i].subscriber.kw[n])

\* C19 witness: an inject_dependencies that gave the logger only has left a
\* function bound to that logger and to the clock an earlier call bound
C19_Witness ==
    /\ last.op = "inject_dependencies"
    /\ last.kw = [n \in {"logger"} |-> "v2"]
    /\ \E i \in 1..Len(subs[last.id]) :
          /\ subs[last.id][i].subscriber.f = "h_two"
          /\ subs[last.id][i].subscriber.kw
                = [n \in {"logger", "clock"} |->
                      IF n = "logger" THEN "v2" ELSE "v1"]

\* C20: notify on an instance calls subscribers of the list of the
\* instance's own class only (for a Derived instance never a subscriber that
\* only Base's list holds, and for a Base instance never one only Derived's
\* holds), and no operation on the list of one class (a registration, a
\* binding of dependencies, a dispatch) changes the subscriptions of another
C20_ConcreteTypeOnly ==
    /\ [](last.op = "notify" =>
            \A i \in 1..Len(DispatchCalls) :
                \E j \in 1..Len(subs[ClassId(ClassOf(last.inst), "")]) :
                    subs[ClassId(ClassOf(last.inst), "")][j].subscriber
                        = DispatchCalls[i].subscriber)
    /\ [][\A id \in Ids \ {last'.id} : subs'[id] = subs[id]]_vars

\* C20 witness: a notify on the Derived instance has returned after calling
\* the one function registered for Derived, while Base holds another
\* function, which was not called
C20_Witness ==
    /\ last.op = "notify"
    /\ last.inst = "Derived#1"
    /\ last.status = "returned"
    /\ GetSubscribers(ClassId("Derived", "")) = <<Plain("h_dep")>>
    /\ GetSubscribers(ClassId("Base", "")) = <<Plain("h_ev")>>
    /\ CalledSubscribers(last.calls) = <<Plain("h_dep")>>

====
